---- MODULE Spec2Model ----
(***************************************************************************)
(* prosody-filer: the HTTP upload handler of src/prosody-filer.go           *)
(* (handleRequest) over a model of the file system below the store          *)
(* directory.                                                                *)
(*                                                                           *)
(* Strings the handler computes on (URL paths, file names) are sequences of *)
(* one-character strings, so that TrimPrefix, Join, Clean, Dir and Ext are  *)
(* computed as the Go library computes them.  A content type is one symbol. *)
(* An HMAC-SHA256 digest is the symbolic value <<"hmac", key, message>>:    *)
(* two digests are equal exactly when key and message are (no collisions).  *)
(***************************************************************************)
EXTENDS Integers, Sequences, FiniteSets, TLC

VARIABLES fs, last, stored, slots, writers, wins

vars == <<fs, last, stored, slots, writers, wins>>

(***************************************************************************)
(* Bounds of the model.                                                     *)
(***************************************************************************)
MaxLen == 1
MaxBody == 2
NumHandlers == 3

(***************************************************************************)
(* Configuration (type Config, read once at start-up).                      *)
(***************************************************************************)
Secret == "mysecret"
Storedir == <<"/", "s", "/">>
UploadSubDir == <<"u", "/">>

(***************************************************************************)
(* String helpers.                                                          *)
(***************************************************************************)
\* The one element of a set of one element: The({e(x) : x \in {v}}) is e(v),
\* with v computed once.
The(S) == CHOOSE x \in S : TRUE

Last(s) == s[Len(s)]
Front(s) == SubSeq(s, 1, Len(s) - 1)

HasPrefix(s, p) == Len(s) >= Len(p) /\ SubSeq(s, 1, Len(p)) = p
HasSuffix(s, p) == Len(s) >= Len(p) /\ SubSeq(s, Len(s) - Len(p) + 1, Len(s)) = p

\* strings.TrimPrefix
TrimPrefix(s, p) == IF HasPrefix(s, p) THEN SubSeq(s, Len(p) + 1, Len(s)) ELSE s

\* The elements of s between its separators, empty ones included.
RECURSIVE SplitFrom(_, _, _)
SplitFrom(s, i, cur) ==
  IF i > Len(s) THEN <<cur>>
  ELSE IF s[i] = "/" THEN <<cur>> \o SplitFrom(s, i + 1, <<>>)
  ELSE SplitFrom(s, i + 1, Append(cur, s[i]))

Split(s) == SplitFrom(s, 1, <<>>)

RECURSIVE JoinSegs(_)
JoinSegs(segs) ==
  IF Len(segs) = 0 THEN <<>>
  ELSE IF Len(segs) = 1 THEN segs[1]
  ELSE segs[1] \o <<"/">> \o JoinSegs(Tail(segs))

DotDot == <<".", ".">>

\* The element stack of path.Clean: "." and empty elements are dropped, ".."
\* removes the element before it, is dropped at the root of a rooted path and
\* is kept at the start of a relative one.
RECURSIVE CleanSegs(_, _, _, _)
CleanSegs(segs, i, out, rooted) ==
  IF i > Len(segs) THEN out
  ELSE LET g == segs[i] IN
    IF g = <<>> \/ g = <<".">> THEN CleanSegs(segs, i + 1, out, rooted)
    ELSE IF g = DotDot THEN
      IF Len(out) > 0 /\ Last(out) # DotDot
        THEN CleanSegs(segs, i + 1, Front(out), rooted)
      ELSE IF rooted THEN CleanSegs(segs, i + 1, out, rooted)
      ELSE CleanSegs(segs, i + 1, Append(out, g), rooted)
    ELSE CleanSegs(segs, i + 1, Append(out, g), rooted)

\* path.Clean, filepath.Clean
Clean(s) ==
  The({IF v = <<>> THEN <<".">>
       ELSE The({The({The({IF r = <<>> THEN <<".">> ELSE r :
                           r \in {IF v[1] = "/" THEN <<"/">> \o JoinSegs(c) ELSE JoinSegs(c)}}) :
                      c \in {CleanSegs(segs, 1, <<>>, v[1] = "/")}}) :
                 segs \in {Split(v)}}) :
       v \in {s}})

\* path.Join, filepath.Join of two elements: empty elements are ignored, the
\* rest is joined with a separator and cleaned.
Join(a, b) ==
  IF a = <<>> /\ b = <<>> THEN <<>>
  ELSE IF a = <<>> THEN Clean(b)
  ELSE IF b = <<>> THEN Clean(a)
  ELSE Clean(a \o <<"/">> \o b)

RECURSIVE LastSlash(_, _)
LastSlash(s, i) == IF i = 0 THEN 0 ELSE IF s[i] = "/" THEN i ELSE LastSlash(s, i - 1)

\* filepath.Dir
Dir(s) == The({Clean(SubSeq(v, 1, LastSlash(v, Len(v)))) : v \in {s}})

\* filepath.Ext: the suffix from the last dot of the last element.
RECURSIVE ExtFrom(_, _)
ExtFrom(s, i) ==
  IF i = 0 \/ s[i] = "/" THEN <<>>
  ELSE IF s[i] = "." THEN SubSeq(s, i, Len(s))
  ELSE ExtFrom(s, i - 1)

Ext(s) == ExtFrom(s, Len(s))

\* mime.TypeByExtension on the extensions the model's paths carry.
TypeByExtension(e) ==
  IF e = <<".", "j", "s">> THEN "text/javascript; charset=utf-8"
  ELSE IF e = <<".", "h", "t", "m", "l">> THEN "text/html; charset=utf-8"
  ELSE ""

Digit(d) == CASE d = 0 -> "0" [] d = 1 -> "1" [] d = 2 -> "2" [] d = 3 -> "3"
              [] d = 4 -> "4" [] d = 5 -> "5" [] d = 6 -> "6" [] d = 7 -> "7"
              [] d = 8 -> "8" [] d = 9 -> "9"

RECURSIVE Digits(_)
Digits(n) == IF n < 10 THEN <<Digit(n)>> ELSE Append(Digits(n \div 10), Digit(n % 10))

\* strconv.FormatInt(n, 10)
FormatInt(n) == IF n < 0 THEN <<"-">> \o Digits(0 - n) ELSE Digits(n)


(***************************************************************************)
(* The file system: a function from the absolute clean paths that exist to *)
(* their entry.  Nothing in the program removes an entry.                   *)
(***************************************************************************)
Root == <<"/">>

\* The model's URL paths.
PEmpty == <<>>
PRoot == <<"/", "u", "/">>
PFile == <<"/", "u", "/", "a", ".", "j", "s">>
PSub == <<"/", "u", "/", "a", ".", "j", "s", "/", "i", "n", "d", "e", "x", ".", "h", "t", "m", "l">>
PEscape == <<"/", "u", "/", ".", ".", "/", "q">>
UrlPaths == {PEmpty, PRoot, PFile, PSub, PEscape}

\* lines 82-92: the path below the store directory, and the file's name
Subdir == Join(<<"/">>, UploadSubDir)
Stripped(p) == TrimPrefix(p, Subdir)
FileStorePath(p) == LET t == Stripped(p) IN IF t # <<>> /\ t[1] = "/" THEN Tail(t) ELSE t
AbsFilename(p) == Join(Storedir, FileStorePath(p))

DirEntry == [kind |-> "dir", data |-> <<>>]
FileEntry(d) == [kind |-> "file", data |-> d]

Exists(f, p) == p \in DOMAIN f
IsDir(f, p) == Exists(f, p) /\ f[p].kind = "dir"
IsFile(f, p) == Exists(f, p) /\ f[p].kind = "file"

\* os.MkdirAll: nil when p is a directory already; an error when p, or the
\* nearest existing ancestor, is not a directory; else the missing
\* directories are made, parents first.
RECURSIVE MkdirAll(_, _)
MkdirAll(f, p) ==
  The({IF Exists(f, q) THEN [ok |-> f[q].kind = "dir", fs |-> f]
       ELSE The({IF par.ok THEN [ok |-> TRUE, fs |-> (q :> DirEntry) @@ par.fs]
                 ELSE [ok |-> FALSE, fs |-> f] :
                 par \in {MkdirAll(f, Dir(q))}}) :
       q \in {p}})

\* os.OpenFile(name, O_CREATE|O_WRONLY): like the exclusive create, but an
\* existing file is opened as it is.
OpenCreate(f, p) ==
  IF IsDir(f, p) \/ ~IsDir(f, Dir(p)) THEN [ok |-> FALSE, fs |-> f]
  ELSE IF Exists(f, p) THEN [ok |-> TRUE, fs |-> f]
  ELSE [ok |-> TRUE, fs |-> (p :> [kind |-> "file", data |-> <<>>]) @@ f]

\* os.OpenFile(name, O_CREATE|O_TRUNC|O_WRONLY): an existing file is emptied.
OpenTrunc(f, p) ==
  IF IsDir(f, p) \/ ~IsDir(f, Dir(p)) THEN [ok |-> FALSE, fs |-> f]
  ELSE [ok |-> TRUE, fs |-> (p :> [kind |-> "file", data |-> <<>>]) @@ f]

\* os.OpenFile(name, O_CREATE|O_EXCL|O_WRONLY): fails when the name exists or
\* its directory does not; else an empty file is made.
OpenExcl(f, p) ==
  The({IF Exists(f, q) \/ ~IsDir(f, Dir(q)) THEN [ok |-> FALSE, fs |-> f]
       ELSE [ok |-> TRUE, fs |-> (q :> FileEntry(<<>>)) @@ f] :
       q \in {p}})

\* A write of bytes d at the end of the open file p.
WriteFile(f, p, d) == [f EXCEPT ![p] = FileEntry(f[p].data \o d)]

\* The store directory, and what it means to be inside it.
StoreRoot == Clean(Storedir)
Under(root, p) == p = root \/ HasPrefix(p, IF Last(root) = "/" THEN root ELSE root \o <<"/">>)
Confined(p) == Under(StoreRoot, p)

(***************************************************************************)
(* Requests.  A query is the result of url.ParseQuery: an error flag and a  *)
(* map from the keys present to their first value.                          *)
(***************************************************************************)
Keys == {"v", "v2", "token"}
NUL == "\\x00"

HmacHex(key, msg) == <<"hmac", key, msg>>
Tampered(d) == <<"tampered", d[2], d[3]>>
RawToken == <<"raw", "", <<"a", "b", "c">>>>

ContentTypeOf(rel) ==
  LET t == TypeByExtension(Ext(rel)) IN IF t = "" THEN "application/octet-stream" ELSE t

\* The two digests of one request, as lines 137-142 build them.
MacV1(key, rel, n) == HmacHex(key, rel \o <<" ">> \o FormatInt(n))
MacV2(key, rel, n, ct) == HmacHex(key, rel \o <<NUL>> \o FormatInt(n) \o <<NUL, ct>>)


(***************************************************************************)
(* handleRequest, src/prosody-filer.go.  The state of one call is a record: *)
(* pc is where it stands, status the status written (0: none yet), cors,    *)
(* allow, ctype, clen the response headers set, out the response body, ops  *)
(* the file-system calls made so far with their path arguments, closes the  *)
(* results of the deferred Close calls.                                     *)
(***************************************************************************)
NoHeader == ""

Call0(r) ==
  [pc |-> "entry", status |-> 0, cors |-> FALSE, allow |-> NoHeader,
   ctype |-> NoHeader, clen |-> -1, out |-> <<>>, ops |-> <<>>,
   fileStorePath |-> <<>>, absFilename |-> <<>>, protocol_version |-> "",
   branch |-> "", written |-> 0, opened |-> FALSE, closes |-> <<>>]

\* http.Error(w, text, code) followed by return; http.Error drops the
\* Content-Length header and sets the Content-Type of its text
TextPlain == "text/plain; charset=utf-8"
Error(h, code) ==
  [h EXCEPT !.status = code, !.pc = "done", !.ctype = TextPlain, !.clen = -1]

ALLOWED_METHODS == "OPTIONS, HEAD, GET, PUT"

\* addCORSheaders
addCORSheaders(h) == [h EXCEPT !.cors = TRUE]

\* lines 104-115: the key whose value is checked, "" when none is present
ProtocolVersion(a) ==
  IF "token" \in DOMAIN a THEN "token"
  ELSE IF "v" \in DOMAIN a THEN "v"
  ELSE IF "v2" \in DOMAIN a THEN "v2"
  ELSE ""

\* A comparison that lets every token pass.
MacBranchAny(r, pv) == "v1"

\* A comparison that knows the first digest only.
MacBranchV1Only(r, pv) ==
  IF r.query.a[pv] = MacV1(Secret, FileStorePath(r.path), r.len) THEN "v1" ELSE "invalid"

\* A comparison that takes a digest of the path with any length.
MacBranchAnyLen(r, pv) ==
  IF \E m \in 0..(MaxLen + 1) : r.query.a[pv] = MacV1(Secret, FileStorePath(r.path), m)
    THEN "v1"
  ELSE IF \E m \in 0..(MaxLen + 1) :
            r.query.a[pv] = MacV2(Secret, FileStorePath(r.path), m,
                                  ContentTypeOf(FileStorePath(r.path)))
    THEN "v2"
  ELSE "invalid"

\* lines 152 and 179: which branch of the MAC comparison the request takes
MacBranch(r, pv) ==
  LET rel == FileStorePath(r.path)
      sent == r.query.a[pv]
  IN IF sent = MacV1(Secret, rel, r.len) THEN "v1"
     ELSE IF sent = MacV2(Secret, rel, r.len, ContentTypeOf(rel)) THEN "v2"
     ELSE "invalid"

\* A PUT that answers a missing key like an invalid token.
EntryPutNoKeyForbidden(r, h) ==
  LET pv == ProtocolVersion(r.query.a) IN
  IF pv = "" THEN Error(h, 403)
  ELSE The({IF g.branch = "invalid" THEN Error(g, 403) ELSE [g EXCEPT !.pc = "mkdir"] :
            g \in {[h EXCEPT !.protocol_version = pv, !.branch = MacBranch(r, pv)]}})

\* lines 97-152, 179, 206-214: a PUT up to its first file-system call
EntryPut(r, h) ==
  LET pv == ProtocolVersion(r.query.a) IN
  IF pv = "" THEN Error(h, 409)
  ELSE The({IF g.branch = "invalid" THEN Error(g, 403) ELSE [g EXCEPT !.pc = "mkdir"] :
            g \in {[h EXCEPT !.protocol_version = pv, !.branch = MacBranch(r, pv)]}})

\* A handler without the check of lines 84-87 for an empty path.
EntryAnyPath(r) ==
  IF r.query.err THEN Error(Call0(r), 500)
  ELSE The({IF r.method = "PUT" THEN EntryPut(r, g)
            ELSE IF r.method \in {"HEAD", "GET"} THEN [g EXCEPT !.pc = "stat"]
            ELSE IF r.method = "OPTIONS"
              THEN [g EXCEPT !.allow = ALLOWED_METHODS, !.status = 200, !.pc = "done"]
            ELSE Error(g, 405) :
            g \in {addCORSheaders([Call0(r) EXCEPT !.fileStorePath = FileStorePath(r.path),
                                                   !.absFilename = AbsFilename(r.path)])}})

\* lines 69-97, 215, 245-252: the handler up to its first file-system call
Entry(r) ==
  LET h == Call0(r) IN
  IF r.query.err THEN Error(h, 500)
  ELSE IF Stripped(r.path) = <<>> \/ Stripped(r.path) = <<"/">> THEN Error(h, 403)
  ELSE The({IF r.method = "PUT" THEN EntryPut(r, g)
            ELSE IF r.method \in {"HEAD", "GET"} THEN [g EXCEPT !.pc = "stat"]
            ELSE IF r.method = "OPTIONS"
              THEN [g EXCEPT !.allow = ALLOWED_METHODS, !.status = 200, !.pc = "done"]
            ELSE Error(g, 405) :
            g \in {addCORSheaders([h EXCEPT !.fileStorePath = FileStorePath(r.path),
                                            !.absFilename = AbsFilename(r.path)])}})

Op(name, p) == <<name, p>>

\* A handler that drops the error of os.MkdirAll and goes on to the create.
StepMkdirIgnoreError(f, h, envFail) ==
  The({[fs |-> m.fs,
        h |-> [h EXCEPT !.ops = Append(@, Op("mkdirall", Dir(h.absFilename))),
                        !.pc = "create"]] :
       m \in {IF envFail THEN [ok |-> FALSE, fs |-> f] ELSE MkdirAll(f, Dir(h.absFilename))}})

\* lines 154-159, 181-186: os.MkdirAll of the file's directory; envFail is a
\* failure the environment causes (permissions, a full disk)
StepMkdir(f, h, envFail) ==
  The({LET m == IF envFail THEN [ok |-> FALSE, fs |-> f] ELSE MkdirAll(f, d)
           g == [h EXCEPT !.ops = Append(@, Op("mkdirall", d))]
       IN IF m.ok THEN [fs |-> m.fs, h |-> [g EXCEPT !.pc = "create"]]
          ELSE [fs |-> f, h |-> Error(g, 500)] :
       d \in {Dir(h.absFilename)}})

\* lines 161-167, 188-194: the exclusive create; the Close deferred at line
\* 162 runs on return, on a nil handle when the create failed
StepCreate(f, h, envFail) ==
  The({LET g == [h EXCEPT !.ops = Append(@, Op("create", h.absFilename))]
       IN IF c.ok THEN [fs |-> c.fs, h |-> [g EXCEPT !.pc = "copy", !.opened = TRUE]]
          ELSE [fs |-> f, h |-> [Error(g, 409) EXCEPT !.closes = Append(@, "nil")]] :
       c \in {IF envFail THEN [ok |-> FALSE, fs |-> f] ELSE OpenExcl(f, h.absFilename)}})

\* A copy that counts n bytes as written but leaves the last one out.
StepWriteShort(f, h, body, n) ==
  [fs |-> WriteFile(f, h.absFilename, SubSeq(body, h.written + 1, h.written + n - 1)),
   h |-> [h EXCEPT !.written = @ + n]]

\* lines 169, 196: io.Copy writes the next n bytes of the body
StepWrite(f, h, body, n) ==
  [fs |-> WriteFile(f, h.absFilename, SubSeq(body, h.written + 1, h.written + n)),
   h |-> [h EXCEPT !.written = @ + n]]

\* A handler that answers a failed copy like a complete one.
StepCopyFailedCreated(h) ==
  [h EXCEPT !.status = 201, !.pc = "done", !.closes = Append(@, "file")]

\* A handler that answers a failed copy but does not return.
StepCopyFailedNoReturn(h) == [h EXCEPT !.status = 500]

\* lines 170-174, 197-201: io.Copy returned an error
StepCopyFailed(h) == [Error(h, 500) EXCEPT !.closes = Append(@, "file")]

\* lines 176-178, 203-205: io.Copy reached the end of the body
StepCreated(h) == [h EXCEPT !.status = 201, !.pc = "done", !.closes = Append(@, "file")]

\* http.ServeFile (line 241): a URL path with a ".." element is refused with
\* 400; one that ends in "/index.html" is redirected to its directory; else
\* the file is opened: a directory is redirected to its name with a slash, or
\* listed when the URL path has the slash, and the bytes of a file are the body
ContainsDotDot(p) == \E i \in 1..Len(Split(p)) : Split(p)[i] = DotDot
indexPage == <<"/", "i", "n", "d", "e", "x", ".", "h", "t", "m", "l">>
\* The page that lists a directory, as a body no file holds (bytes are >= 0).
DirList == <<-1>>

ServeFile(f, h, urlPath) ==
  LET g == [h EXCEPT !.pc = "done"] IN
  IF ContainsDotDot(urlPath) THEN Error(g, 400)
  ELSE IF HasSuffix(urlPath, indexPage) THEN [g EXCEPT !.status = 301]
  ELSE LET o == [g EXCEPT !.ops = Append(@, Op("open", h.absFilename))] IN
    IF ~Exists(f, h.absFilename) THEN Error(o, 404)
    ELSE IF IsDir(f, h.absFilename)
      THEN IF Last(urlPath) # "/" THEN [o EXCEPT !.status = 301]
           ELSE [o EXCEPT !.status = 200, !.out = DirList]
    ELSE [o EXCEPT !.status = 200, !.out = f[h.absFilename].data,
                   !.clen = Len(f[h.absFilename].data)]

\* A stat step that refuses a request whose query carries no key.
StepStatKeyRequired(f, h, r) ==
  LET g == [h EXCEPT !.ops = Append(@, <<"stat", h.absFilename>>)] IN
  IF DOMAIN r.query.a = {} THEN Error(g, 403)
  ELSE IF ~Exists(f, h.absFilename) THEN Error(g, 404)
  ELSE IF IsDir(f, h.absFilename) THEN Error(g, 403)
  ELSE IF r.method = "HEAD"
    THEN [g EXCEPT !.clen = Len(f[h.absFilename].data), !.status = 200, !.pc = "done"]
  ELSE [g EXCEPT !.pc = "serve"]

\* A stat step that sets the type of the extension as it is, with no default.
StepStatNoDefault(f, h, r) ==
  LET g == [h EXCEPT !.ops = Append(@, <<"stat", h.absFilename>>)] IN
  IF ~Exists(f, h.absFilename) THEN Error(g, 404)
  ELSE IF IsDir(f, h.absFilename) THEN Error(g, 403)
  ELSE LET c == [g EXCEPT !.ctype = TypeByExtension(Ext(h.fileStorePath))] IN
    IF r.method = "HEAD"
      THEN [c EXCEPT !.clen = Len(f[h.absFilename].data), !.status = 200, !.pc = "done"]
    ELSE [c EXCEPT !.pc = "serve"]

\* A stat step that takes a directory for a file.
StepStatAnyKind(f, h, r) ==
  LET g == [h EXCEPT !.ops = Append(@, <<"stat", h.absFilename>>)] IN
  IF ~Exists(f, h.absFilename) THEN Error(g, 404)
  ELSE IF r.method = "HEAD"
    THEN [g EXCEPT !.clen = Len(f[h.absFilename].data), !.status = 200, !.pc = "done"]
  ELSE [g EXCEPT !.pc = "serve"]

\* lines 216-244: os.Stat and what HEAD answers from it
StepStat(f, h, r) ==
  LET g == [h EXCEPT !.ops = Append(@, Op("stat", h.absFilename))] IN
  IF ~Exists(f, h.absFilename) THEN Error(g, 404)
  ELSE IF IsDir(f, h.absFilename) THEN Error(g, 403)
  ELSE LET c == [g EXCEPT !.ctype = ContentTypeOf(h.fileStorePath)] IN
    IF r.method = "HEAD"
      THEN [c EXCEPT !.clen = Len(f[h.absFilename].data), !.status = 200, !.pc = "done"]
    ELSE [c EXCEPT !.pc = "serve"]


(***************************************************************************)
(* One whole call of handleRequest on file system f.  The body is the byte *)
(* stream io.Copy reads; flt is the failure the environment injects: none,  *)
(* at MkdirAll, at OpenFile, or in io.Copy after k bytes were written.      *)
(***************************************************************************)
NoFault == [at |-> "none", k |-> 0]

RunCopy(f, h, body, flt) ==
  IF flt.at = "copy"
    THEN The({[fs |-> w.fs, h |-> StepCopyFailed(w.h), fired |-> flt, body |-> body] :
              w \in {StepWrite(f, h, body, flt.k)}})
    ELSE The({[fs |-> w.fs, h |-> StepCreated(w.h), fired |-> NoFault, body |-> body] :
              w \in {StepWrite(f, h, body, Len(body))}})

RunCreate(f, h, body, flt) ==
  The({IF c.h.pc = "done"
         THEN [fs |-> c.fs, h |-> c.h, body |-> <<>>,
               fired |-> IF flt.at = "create" THEN flt ELSE NoFault]
         ELSE RunCopy(c.fs, c.h, body, flt) :
       c \in {StepCreate(f, h, flt.at = "create")}})

RunPut(f, h, body, flt) ==
  The({IF m.h.pc = "done"
         THEN [fs |-> m.fs, h |-> m.h, body |-> <<>>,
               fired |-> IF flt.at = "mkdir" THEN flt ELSE NoFault]
         ELSE RunCreate(m.fs, m.h, body, flt) :
       m \in {StepMkdir(f, h, flt.at = "mkdir")}})

RunRead(f, h, r) ==
  The({IF t.pc = "done" THEN [fs |-> f, h |-> t, body |-> <<>>, fired |-> NoFault]
       ELSE [fs |-> f, h |-> ServeFile(f, t, r.path), body |-> <<>>, fired |-> NoFault] :
       t \in {StepStat(f, h, r)}})


Run(f, r, e, body, flt) ==
  IF e.pc = "mkdir" THEN RunPut(f, e, body, flt)
  ELSE IF e.pc = "stat" THEN RunRead(f, e, r)
  ELSE [fs |-> f, h |-> e, body |-> <<>>, fired |-> NoFault]

(***************************************************************************)
(* The requests of the model.                                               *)
(***************************************************************************)
\* Bodies: the strictly increasing byte sequences over 1..MaxBody.
Bodies ==
  {b \in UNION {[1..n -> 1..MaxBody] : n \in 0..MaxBody} :
     \A i \in 1..(Len(b) - 1) : b[i] < b[i + 1]}
Lens == 0..MaxLen

\* A file outside the store directory that exists before the server starts.
Outside == <<"/", "q">>
OutsideData == <<9>>

\* What the upload component of the chat server signs: the URL path after
\* the upload prefix, the announced length and, in the v2 scheme, the type.
ClientRel(p) == IF Len(p) > 3 THEN SubSeq(p, 4, Len(p)) ELSE <<>>

TokenKinds == {"v1", "v2", "v1tampered", "v2tampered", "raw",
               "v1len", "v2len", "v1path", "v2path"}

TokenFor(kind, p, n) ==
  LET rel == ClientRel(p)
      other == rel \o <<"x">>
      ct == ContentTypeOf(rel)
  IN CASE kind = "v1" -> MacV1(Secret, rel, n)
       [] kind = "v2" -> MacV2(Secret, rel, n, ct)
       [] kind = "v1tampered" -> Tampered(MacV1(Secret, rel, n))
       [] kind = "v2tampered" -> Tampered(MacV2(Secret, rel, n, ct))
       [] kind = "raw" -> RawToken
       [] kind = "v1len" -> MacV1(Secret, rel, n + 1)
       [] kind = "v2len" -> MacV2(Secret, rel, n + 1, ct)
       [] kind = "v1path" -> MacV1(Secret, other, n)
       [] kind = "v2path" -> MacV2(Secret, other, n, ContentTypeOf(other))

Query(a) == [err |-> FALSE, a |-> a]
BadQuery == [err |-> TRUE, a |-> <<>>]
NoKeys == Query(<<>>)

Request(m, p, q, n) == [method |-> m, path |-> p, query |-> q, len |-> n]

\* Queries of a PUT: one key with any kind of value, several keys, no key, or
\* a query string that does not parse.
OneKey(p, n) == {Query(k :> TokenFor(kind, p, n)) : k \in Keys, kind \in TokenKinds}
ReadQueries(p) == {NoKeys, Query("v" :> RawToken), Query("v" :> TokenFor("v1", p, 0))}

\* Several keys at once, each with a digest of the request or an arbitrary
\* string.
SeveralKeys(p, n) ==
  UNION {{Query([k \in K |-> TokenFor(kinds[k], p, n)]) : kinds \in [K -> {"v1", "v2", "raw"}]} :
         K \in {J \in SUBSET Keys : Cardinality(J) >= 2}}
PutQueries(p, n) == OneKey(p, n) \cup SeveralKeys(p, n) \cup {NoKeys, BadQuery}
PutRequests ==
  UNION {{Request("PUT", p, q, n) : q \in PutQueries(p, n)} : p \in UrlPaths, n \in Lens}
ReadRequests(m) ==
  UNION {{Request(m, p, q, 0) : q \in ReadQueries(p)} : p \in UrlPaths}
OtherRequests(m) == {Request(m, p, q, 0) : p \in UrlPaths, q \in {NoKeys, BadQuery}}

\* The failures the environment can inject into a PUT that reads body: the
\* copy fails when all bytes but the last have been written.
BrokenCopy(body) == [at |-> "copy", k |-> IF Len(body) > 0 THEN Len(body) - 1 ELSE 0]
MkdirFault == [at |-> "mkdir", k |-> 0]
CreateFault == [at |-> "create", k |-> 0]


(***************************************************************************)
(* The sequential specification: requests are handled one after the other. *)
(* last is the request handled last with its final call state; stored maps *)
(* every file a PUT answered 201 for to the bytes it held at that moment.   *)
(* Forget drops the record of the last exchange before the next request.    *)
(***************************************************************************)
NoReq == Request("NONE", <<>>, NoKeys, 0)

Done(r, res, f, st) ==
  [req |-> r, h |-> res.h, body |-> res.body, fired |-> res.fired,
   made |-> DOMAIN res.fs \ DOMAIN f,
   kept |-> \A p \in DOMAIN f : res.fs[p] = f[p],
   existed |-> res.h.absFilename \in DOMAIN f,
   blocked |-> \E q \in DOMAIN f : IsFile(f, q) /\ q # res.h.absFilename
                                     /\ Under(q, res.h.absFilename),
   wasStored |-> res.h.absFilename \in DOMAIN st]

InitFs == (Root :> DirEntry) @@ (Outside :> FileEntry(OutsideData))

Idle ==
  [req |-> NoReq, h |-> [Call0(NoReq) EXCEPT !.pc = "idle"], body |-> <<>>,
   fired |-> NoFault, made |-> {}, kept |-> TRUE, existed |-> FALSE,
   blocked |-> FALSE, wasStored |-> FALSE]

Init ==
  /\ fs = InitFs
  /\ last = Idle
  /\ stored = <<>>
  /\ slots = <<>>
  /\ writers = {}
  /\ wins = {}

Record(r, res) ==
  /\ fs' = res.fs
  /\ last' = Done(r, res, fs, stored)
  /\ stored' = IF res.h.status = 201
                 THEN (res.h.absFilename :> res.fs[res.h.absFilename].data) @@ stored
                 ELSE stored
  /\ UNCHANGED <<slots, writers, wins>>

Serve(r, e, body, flt) ==
  \E res \in {Run(fs, r, e, body, flt)} :
    /\ res.fired = flt
    /\ res.body = body
    /\ Record(r, res)

HandlePut ==
  /\ last = Idle
  /\ \E r \in PutRequests : \E e \in {Entry(r)} :
       IF e.pc = "mkdir"
         THEN \/ \E flt \in {MkdirFault, CreateFault} : Serve(r, e, <<>>, flt)
              \/ \E body \in Bodies : \E flt \in {NoFault, BrokenCopy(body)} :
                   Serve(r, e, body, flt)
         ELSE Serve(r, e, <<>>, NoFault)

HandleHead ==
  /\ last = Idle
  /\ \E r \in ReadRequests("HEAD") : \E e \in {Entry(r)} : Serve(r, e, <<>>, NoFault)

HandleGet ==
  /\ last = Idle
  /\ \E r \in ReadRequests("GET") : \E e \in {Entry(r)} : Serve(r, e, <<>>, NoFault)

HandleOptions ==
  /\ last = Idle
  /\ \E r \in OtherRequests("OPTIONS") : \E e \in {Entry(r)} : Serve(r, e, <<>>, NoFault)

HandleOther ==
  /\ last = Idle
  /\ \E r \in OtherRequests("POST") : \E e \in {Entry(r)} : Serve(r, e, <<>>, NoFault)

Forget ==
  /\ last # Idle
  /\ last' = Idle
  /\ UNCHANGED <<fs, stored, slots, writers, wins>>

Next == HandlePut \/ HandleHead \/ HandleGet \/ HandleOptions \/ HandleOther \/ Forget

Spec == Init /\ [][Next]_vars


(***************************************************************************)
(* The concurrent specification: net/http runs every request in its own    *)
(* goroutine, so the file-system calls of several handleRequest calls      *)
(* interleave.  slots[i] is the call of handler i; wins holds <<i, p>> for  *)
(* every handler i whose create of p succeeded, writers holds <<i, p>> for  *)
(* every handler i that wrote bytes to p.                                   *)
(***************************************************************************)
Handlers == 1..NumHandlers

FreeSlot == [req |-> NoReq, h |-> Idle.h, body |-> <<>>]

ConcPaths == {PFile, PSub}

ConcRequests ==
  {Request("PUT", p, Query("v" :> TokenFor("v1", p, n)), n) : p \in ConcPaths, n \in Lens}
    \cup {Request(m, p, NoKeys, 0) : m \in {"GET", "HEAD"}, p \in ConcPaths}

InitConc ==
  /\ fs = InitFs
  /\ last = Idle
  /\ stored = <<>>
  /\ slots = [i \in Handlers |-> FreeSlot]
  /\ writers = {}
  /\ wins = {}

\* A request reaches the server: lines 69-152 run without a file-system call.
Arrive ==
  \E i \in Handlers :
    /\ slots[i] = FreeSlot
    /\ \E r \in ConcRequests : \E e \in {Entry(r)} :
         \E body \in IF r.method = "PUT" THEN {b \in Bodies : Len(b) = r.len} ELSE {<<>>} :
           slots' = [slots EXCEPT ![i] = [req |-> r, h |-> e, body |-> body]]
    /\ UNCHANGED <<fs, last, stored, writers, wins>>

Mkdir ==
  \E i \in Handlers :
    /\ slots[i].h.pc = "mkdir"
    /\ \E m \in {StepMkdir(fs, slots[i].h, FALSE)} :
         /\ fs' = m.fs
         /\ slots' = [slots EXCEPT ![i].h = m.h]
    /\ UNCHANGED <<last, stored, writers, wins>>

Create ==
  \E i \in Handlers :
    /\ slots[i].h.pc = "create"
    /\ \E c \in {StepCreate(fs, slots[i].h, FALSE)} :
         /\ fs' = c.fs
         /\ slots' = [slots EXCEPT ![i].h = c.h]
         /\ wins' = IF c.h.opened THEN wins \cup {<<i, c.h.absFilename>>} ELSE wins
    /\ UNCHANGED <<last, stored, writers>>

CopyChunk ==
  \E i \in Handlers :
    /\ slots[i].h.pc = "copy"
    /\ slots[i].h.written < Len(slots[i].body)
    /\ \E w \in {StepWrite(fs, slots[i].h, slots[i].body, 1)} :
         /\ fs' = w.fs
         /\ slots' = [slots EXCEPT ![i].h = w.h]
    /\ writers' = writers \cup {<<i, slots[i].h.absFilename>>}
    /\ UNCHANGED <<last, stored, wins>>

CopyDone ==
  \E i \in Handlers :
    /\ slots[i].h.pc = "copy"
    /\ slots[i].h.written = Len(slots[i].body)
    /\ slots' = [slots EXCEPT ![i].h = StepCreated(@)]
    /\ stored' = (slots[i].h.absFilename :> fs[slots[i].h.absFilename].data) @@ stored
    /\ UNCHANGED <<fs, last, writers, wins>>

CopyFail ==
  \E i \in Handlers :
    /\ slots[i].h.pc = "copy"
    /\ slots[i].h.written < Len(slots[i].body)
    /\ slots' = [slots EXCEPT ![i].h = StepCopyFailed(@)]
    /\ UNCHANGED <<fs, last, stored, writers, wins>>

Stat ==
  \E i \in Handlers :
    /\ slots[i].h.pc = "stat"
    /\ slots' = [slots EXCEPT ![i].h = StepStat(fs, @, slots[i].req)]
    /\ UNCHANGED <<fs, last, stored, writers, wins>>

Send ==
  \E i \in Handlers :
    /\ slots[i].h.pc = "serve"
    /\ slots' = [slots EXCEPT ![i].h = ServeFile(fs, @, slots[i].req.path)]
    /\ UNCHANGED <<fs, last, stored, writers, wins>>

NextConc ==
  Arrive \/ Mkdir \/ Create \/ CopyChunk \/ CopyDone \/ CopyFail \/ Stat \/ Send

SpecConc == InitConc /\ [][NextConc]_vars

\* The steps of the handlers that are running.  Each call runs in a goroutine
\* of its own, which the Go scheduler never leaves waiting for ever, and every
\* file-system call returns; the body stream ends, so io.Copy returns too.
HandlerSteps == Mkdir \/ Create \/ CopyChunk \/ CopyDone \/ CopyFail \/ Stat \/ Send

SpecLive == InitConc /\ [][NextConc]_vars /\ WF_vars(HandlerSteps)


(***************************************************************************)
(* Properties.  Those of one call are stated on last, the record of the    *)
(* request handled last in Spec; those of racing calls on slots in         *)
(* SpecConc.                                                               *)
(***************************************************************************)
LastIsPut == last.req.method = "PUT" /\ ~last.req.query.err
LastRel == FileStorePath(last.req.path)
LastMacV1 == MacV1(Secret, LastRel, last.req.len)
LastMacV2 == MacV2(Secret, LastRel, last.req.len, ContentTypeOf(LastRel))
LastSent == last.req.query.a[last.h.protocol_version]
OpsOf(h) == {h.ops[k][2] : k \in 1..Len(h.ops)}

WinnersOf(p) == {i \in Handlers : <<i, p>> \in wins}
WritersOf(p) == {i \in Handlers : <<i, p>> \in writers}
AuthPuts(p) ==
  {i \in Handlers : /\ slots[i].req.method = "PUT"
                    /\ slots[i].h.branch \in {"v1", "v2"}
                    /\ slots[i].h.absFilename = p}

\* C1: of the authenticated PUTs that race for one path, at most one wins the
\* exclusive create and only the winner ever writes to the file; once all of
\* them have answered, none with 500 (no I/O failure), and the path is not a
\* directory, exactly one answered 201 and every other one 409.
C1_ExclusiveCreate ==
  \A i \in Handlers :
    slots[i].req.method = "PUT" =>
      LET p == slots[i].h.absFilename
          puts == AuthPuts(p)
      IN /\ Cardinality(WinnersOf(p)) <= 1
         /\ Cardinality(WritersOf(p)) <= 1
         /\ WritersOf(p) \subseteq WinnersOf(p)
         /\ ( /\ Cardinality(puts) >= 2
              /\ \A j \in puts : slots[j].h.pc = "done" /\ slots[j].h.status # 500
              /\ ~IsDir(fs, p) )
            => \E j \in puts : /\ slots[j].h.status = 201
                               /\ \A k \in puts \ {j} : slots[k].h.status = 409

\* Two PUTs for one path overlap: one has won the create and is in the middle
\* of its copy when the other has been answered 409.
C1_Witness ==
  \E i, j \in Handlers :
    /\ i # j
    /\ slots[i].h.absFilename = slots[j].h.absFilename
    /\ slots[i].h.pc = "copy"
    /\ <<i, slots[i].h.absFilename>> \in writers
    /\ slots[j].h.branch = "v1"
    /\ slots[j].h.status = 409

\* C2: a file a PUT answered 201 for keeps the bytes it had then, and every
\* later authenticated PUT to its path, under any of the three keys, is
\* answered 409 (500 when the environment fails MkdirAll).
C2_NoOverwrite ==
  /\ \A p \in DOMAIN stored : IsFile(fs, p) /\ fs[p].data = stored[p]
  /\ ( /\ LastIsPut
       /\ last.h.branch \in {"v1", "v2"}
       /\ last.wasStored
       /\ last.fired.at # "mkdir" )
     => last.h.status = 409 /\ last.made = {} /\ last.kept

\* A second PUT under the token key to a path that holds an uploaded file with
\* bytes in it.
C2_Witness ==
  /\ LastIsPut
  /\ last.wasStored
  /\ last.h.protocol_version = "token"
  /\ last.h.branch = "v2"
  /\ last.h.status = 409
  /\ Len(stored[last.h.absFilename]) > 0
  /\ last.req.len # Len(stored[last.h.absFilename])

\* C3: every path the handler makes a file-system call on is the store
\* directory or lies below it.
C3_OpsConfined == \A q \in OpsOf(last.h) : Confined(q)

\* C4: a GET whose path below the upload prefix has ".." elements that lead out
\* of the store directory is answered 403 and makes no file-system call on a
\* path outside the store directory.
C4_EscapeForbidden ==
  ( /\ last.req.method = "GET"
    /\ ~last.req.query.err
    /\ ContainsDotDot(LastRel)
    /\ ~Confined(AbsFilename(last.req.path)) )
  => last.h.status = 403 /\ \A q \in OpsOf(last.h) : Confined(q)

\* C5: a PUT that carries under the key v2 the digest of the first scheme of
\* that same request is answered 403 and creates nothing.
C5_SchemeOfKey ==
  ( /\ LastIsPut
    /\ DOMAIN last.req.query.a = {"v2"}
    /\ last.req.query.a["v2"] = LastMacV1 )
  => last.h.status = 403 /\ last.made = {}

\* C6: of the keys present in the query of a PUT, v2 is selected before token
\* and token before v.
C6_Precedence ==
  ( /\ LastIsPut
    /\ last.h.cors
    /\ DOMAIN last.req.query.a # {} )
  => last.h.protocol_version =
       IF "v2" \in DOMAIN last.req.query.a THEN "v2"
       ELSE IF "token" \in DOMAIN last.req.query.a THEN "token"
       ELSE "v"

\* C7: a PUT with none of the keys v, v2, token is answered 403 and creates
\* neither a file nor a directory.
C7_NoKeyForbidden ==
  (LastIsPut /\ DOMAIN last.req.query.a = {})
  => last.h.status = 403 /\ last.made = {}

\* C8: a PUT whose selected token is none of the digests computed for the
\* request (a digest with one character changed, an arbitrary string, a digest
\* of another length or path) is answered 403 under each of the keys and
\* leaves the file system as it was.
C8_InvalidToken ==
  ( /\ LastIsPut
    /\ last.h.protocol_version # ""
    /\ LastSent \notin {LastMacV1, LastMacV2} )
  => /\ last.h.status = 403
     /\ last.made = {}
     /\ last.kept
     /\ last.h.ops = <<>>

\* A digest of the second scheme with one character changed, under the key v2.
C8_Witness ==
  /\ LastIsPut
  /\ last.req.path = PFile
  /\ DOMAIN last.req.query.a = {"v2"}
  /\ LastSent = Tampered(LastMacV2)
  /\ last.h.status = 403

\* C9: a PUT with the digest of the first scheme under the key v, to a path
\* that does not exist and has no file among its ancestors, with a body of
\* exactly the announced length and no I/O failure, is answered 201, and the
\* file then exists with exactly that many bytes, those of the body.
C9_UploadV1 ==
  ( /\ LastIsPut
    /\ last.h.cors
    /\ last.h.protocol_version = "v"
    /\ LastSent = LastMacV1
    /\ ~last.existed
    /\ ~last.blocked
    /\ last.fired = NoFault
    /\ Len(last.body) = last.req.len )
  => /\ last.h.status = 201
     /\ IsFile(fs, last.h.absFilename)
     /\ Len(fs[last.h.absFilename].data) = last.req.len
     /\ fs[last.h.absFilename].data = last.body

\* An upload of one byte under the key v.
C9_Witness ==
  /\ LastIsPut
  /\ last.h.protocol_version = "v"
  /\ LastSent = LastMacV1
  /\ last.req.len = 1
  /\ last.h.status = 201
  /\ Len(fs[last.h.absFilename].data) = 1

\* C10: a PUT with the digest of the second scheme, under the key v2 or under
\* the key token, to a path that does not exist and has no file among its
\* ancestors, is answered 201 when no I/O failure occurs.
C10_UploadV2 ==
  ( /\ LastIsPut
    /\ last.h.cors
    /\ last.h.protocol_version \in {"v2", "token"}
    /\ LastSent = LastMacV2
    /\ ~last.existed
    /\ ~last.blocked
    /\ last.fired = NoFault )
  => /\ last.h.status = 201
     /\ last.h.branch = "v2"
     /\ IsFile(fs, last.h.absFilename)

\* An upload under the key token of a file whose type comes from its extension.
C10_Witness ==
  /\ LastIsPut
  /\ last.req.path = PFile
  /\ DOMAIN last.req.query.a = {"token"}
  /\ LastSent = LastMacV2
  /\ last.h.status = 201
  /\ ContentTypeOf(LastRel) # "application/octet-stream"

\* C11: the bytes a PUT answered 201 for are those of its body; a later GET of
\* the same URL path is answered 200 with exactly these bytes as its body, and a
\* later HEAD 200 with their number as Content-Length.
C11_RoundTrip ==
  /\ (LastIsPut /\ last.h.status = 201)
       => fs[last.h.absFilename].data = last.body
  /\ (last.req.method = "GET" /\ ~last.req.query.err /\ last.wasStored)
       => last.h.status = 200 /\ last.h.out = stored[last.h.absFilename]
  /\ (last.req.method = "HEAD" /\ ~last.req.query.err /\ last.wasStored)
       => last.h.status = 200 /\ last.h.clen = Len(stored[last.h.absFilename])

C13_Download ==
  ( /\ last.req.method \in {"GET", "HEAD"}
    /\ ~last.req.query.err
    /\ last.h.cors
    /\ Confined(last.h.absFilename)
    /\ IsFile(fs, last.h.absFilename) )
  => /\ last.h.status = 200
     /\ last.h.ctype = ContentTypeOf(LastRel)
     /\ last.req.method = "HEAD"
          => /\ last.h.clen = Len(fs[last.h.absFilename].data)
             /\ last.h.out = <<>>
     /\ last.req.method = "GET" => last.h.out = fs[last.h.absFilename].data

\* C14: a request whose method is none of PUT, GET, HEAD, OPTIONS is answered
\* 405, whatever its path and its query.
C14_OtherMethod ==
  (last # Idle /\ last.req.method \notin {"PUT", "GET", "HEAD", "OPTIONS"})
  => last.h.status = 405

\* C15: every OPTIONS request is answered 200 with the Allow header
\* "OPTIONS, HEAD, GET, PUT", with or without a token, and makes no file-system
\* call.
C15_Options ==
  last.req.method = "OPTIONS"
  => /\ last.h.status = 200
     /\ last.h.allow = "OPTIONS, HEAD, GET, PUT"
     /\ last.h.ops = <<>>

\* C16: every response carries the CORS headers, those for an empty path (403)
\* and an unparsable query (500) included.
C16_CorsAlways == last # Idle => last.h.cors

\* C17: a request with a query that parses, whose path is empty or "/" once the
\* upload prefix is taken off, is answered 403, whatever its method and token,
\* and makes no file-system call.
C17_EmptyPath ==
  ( /\ last # Idle
    /\ ~last.req.query.err
    /\ Stripped(last.req.path) \in {<<>>, <<"/">>} )
  => /\ last.h.status = 403
     /\ last.h.ops = <<>>
     /\ last.made = {}
     /\ last.kept

\* A PUT to the upload directory itself, with the digest of that very request.
C17_Witness ==
  /\ LastIsPut
  /\ last.req.path = PRoot
  /\ DOMAIN last.req.query.a = {"v"}
  /\ last.req.query.a["v"] = LastMacV1
  /\ last.h.status = 403
  /\ last.h.ops = <<>>

\* C18: an authenticated PUT is answered 409 only when its path existed; when
\* the create fails for another reason, the answer is 500.
C18_ConflictOnlyIfExists ==
  (LastIsPut /\ last.h.branch \in {"v1", "v2"})
  => /\ last.h.status = 409 => last.existed
     /\ (last.fired.at = "create" /\ ~last.existed) => last.h.status = 500

C20_WriteOnce ==
  \A p \in DOMAIN fs :
    (IsFile(fs, p) /\ p # Outside)
    => /\ Cardinality(WinnersOf(p)) = 1
       /\ WritersOf(p) \subseteq WinnersOf(p)
       /\ \A i \in WinnersOf(p) : slots[i].req.method = "PUT"
       /\ p \in DOMAIN stored => fs[p].data = stored[p]

\* One path, three calls: the PUT that stored a byte, a PUT that lost, and a
\* GET that was sent the stored byte.
C20_Witness ==
  \E i, j, k \in Handlers :
    /\ slots[i].req.method = "PUT" /\ slots[i].h.status = 201
    /\ slots[i].h.absFilename \in DOMAIN stored
    /\ Len(stored[slots[i].h.absFilename]) > 0
    /\ slots[j].req.method = "PUT" /\ slots[j].h.status = 409
    /\ slots[j].h.absFilename = slots[i].h.absFilename
    /\ slots[k].req.method = "GET" /\ slots[k].h.status = 200
    /\ slots[k].h.absFilename = slots[i].h.absFilename
    /\ slots[k].h.out = stored[slots[i].h.absFilename]

\* C21: a PUT that makes a file or directory, or any file-system call at all,
\* carries as its selected token the digest of the first or of the second
\* scheme, under the configured secret, of its own relative path and announced
\* length; a digest of another length or of another path is answered 403 and
\* changes nothing.
C21_TokenBindsRequest ==
  (LastIsPut /\ last.h.cors)
  => /\ (last.made # {} \/ last.h.ops # <<>>)
          => /\ last.h.protocol_version # ""
             /\ LastSent \in {LastMacV1, LastMacV2}
     /\ ( /\ last.h.protocol_version # ""
          /\ LastSent \in {TokenFor(k, last.req.path, last.req.len) :
                             k \in {"v1len", "v2len", "v1path", "v2path"}} )
        => last.h.status = 403 /\ last.made = {} /\ last.kept

\* A PUT of a file with the digest of the same path and another length.
C21_Witness ==
  /\ LastIsPut
  /\ last.req.path = PFile
  /\ DOMAIN last.req.query.a = {"v"}
  /\ LastSent = MacV1(Secret, LastRel, last.req.len + 1)
  /\ last.h.status = 403
  /\ last.made = {}

\* The last request was a PUT whose selected token is a digest of the request.
LastAuthenticated ==
  /\ LastIsPut
  /\ last.h.cors
  /\ last.h.protocol_version # ""
  /\ LastSent \in {LastMacV1, LastMacV2}

\* C22: a request that is not an authenticated PUT (a GET, HEAD or OPTIONS, a
\* request of another method, a PUT without token or with an invalid one) makes
\* no file and no directory and changes the bytes of no file.
C22_OnlyPutChanges ==
  (last # Idle /\ ~LastAuthenticated) => last.made = {} /\ last.kept

\* A PUT with an arbitrary string as token, to the path of a stored file.
C22_Witness ==
  /\ LastIsPut
  /\ last.wasStored
  /\ DOMAIN last.req.query.a = {"v2"}
  /\ LastSent = RawToken
  /\ last.h.status = 403
  /\ fs[last.h.absFilename].data = stored[last.h.absFilename]

\* C23: the digests are computed over the announced length, not over the bytes
\* read: an authenticated PUT to a path that does not exist and has no file
\* among its ancestors, whose body is longer or shorter than announced, is
\* answered 201 when no I/O failure occurs, and the file then holds the bytes
\* of the body, all of them and no others.
C23_DeclaredLength ==
  ( /\ LastAuthenticated
    /\ ~last.existed
    /\ ~last.blocked
    /\ last.fired = NoFault
    /\ Len(last.body) # last.req.len )
  => /\ last.h.status = 201
     /\ IsFile(fs, last.h.absFilename)
     /\ fs[last.h.absFilename].data = last.body
     /\ last.h.written = Len(last.body)

\* A PUT that announces no byte and sends two.
C23_Witness ==
  /\ LastAuthenticated
  /\ last.req.len = 0
  /\ Len(last.body) = 2
  /\ last.h.status = 201
  /\ Len(fs[last.h.absFilename].data) = 2

\* C24: a PUT whose copy fails after some bytes is answered 500, not 201; the
\* file stays with the bytes written so far; and a later authenticated PUT to
\* the path of such a file is answered 409 and changes nothing.
C24_PartialUpload ==
  /\ (LastIsPut /\ last.fired.at = "copy")
       => /\ last.h.status = 500
          /\ IsFile(fs, last.h.absFilename)
          /\ fs[last.h.absFilename].data = SubSeq(last.body, 1, last.fired.k)
          /\ last.h.absFilename \notin DOMAIN stored
  /\ (LastAuthenticated /\ last.existed /\ ~last.wasStored /\ last.fired.at # "mkdir")
       => last.h.status = 409 /\ last.made = {} /\ last.kept

\* A PUT to a path in the store directory that holds the first byte of an
\* upload that failed.
C24_Witness ==
  /\ LastAuthenticated
  /\ last.existed
  /\ ~last.wasStored
  /\ Confined(last.h.absFilename)
  /\ Len(fs[last.h.absFilename].data) > 0
  /\ last.h.status = 409

\* C25: a GET or HEAD that has answered, on a path that a racing PUT created,
\* answered 404 or 200; a GET answered 200 with a prefix of the body of that
\* PUT, a HEAD answered 200 with a Content-Length of at most its length.
C25_RacingRead ==
  \A k \in Handlers : \A i \in Handlers :
    (/\ slots[k].req.method \in {"GET", "HEAD"}
     /\ slots[k].h.pc = "done"
     /\ <<i, slots[k].h.absFilename>> \in wins)
      => /\ slots[k].h.status \in {404, 200}
         /\ slots[k].h.status = 200 =>
              /\ slots[k].h.clen <= Len(slots[i].body)
              /\ Len(slots[k].h.out) <= Len(slots[i].body)
              /\ slots[k].h.out = SubSeq(slots[i].body, 1, Len(slots[k].h.out))

\* C26: when a PUT has returned, the Close calls it issued are exactly one
\* Close of the file it created, or none if it created no file.
C26_HandleRelease ==
  (LastIsPut /\ last.h.pc = "done")
    => last.h.closes = IF last.h.opened THEN <<"file">> ELSE <<>>

\* C27: every request ends with exactly one status.  A call that has written
\* a status has returned, and a call that has returned changes nothing more,
\* so no second status is written; no file-system call is made twice by one
\* call, so nothing is retried; and every call that has started returns with a
\* status written.
C27_OneTerminalStatus ==
  /\ [][\A i \in Handlers :
          /\ slots[i].h.status # 0 => slots[i].h.pc = "done"
          /\ slots[i].h.pc = "done" => slots'[i] = slots[i]
          /\ \A j, k \in 1..Len(slots'[i].h.ops) :
               j # k => slots'[i].h.ops[j][1] # slots'[i].h.ops[k][1]]_vars
  /\ \A i \in Handlers :
       (slots[i] # FreeSlot) ~> (slots[i].h.pc = "done" /\ slots[i].h.status # 0)

\* A PUT whose copy failed has returned with 500, having called MkdirAll and
\* OpenFile once each.
C27_Witness ==
  \E i \in Handlers :
    /\ slots[i].req.method = "PUT"
    /\ slots[i].h.pc = "done"
    /\ slots[i].h.status = 500
    /\ Len(slots[i].h.ops) = 2

\* C28: an authenticated PUT whose parent directories cannot be made, because
\* an element of the parent path is a regular file or because os.MkdirAll
\* fails for another reason, is answered 500, creates nothing and leaves every
\* existing entry as it was.
C28_MkdirFails ==
  (LastAuthenticated /\ (last.blocked \/ last.fired.at = "mkdir"))
    => /\ last.h.status = 500
       /\ last.made = {}
       /\ last.kept
       /\ ~last.h.opened

\* PUT a/index.html after PUT a stored bytes at a: 500, and a keeps its bytes.
C28_Witness ==
  /\ LastAuthenticated
  /\ last.blocked
  /\ last.fired = NoFault
  /\ last.req.path = PSub
  /\ AbsFilename(PFile) \in DOMAIN stored
  /\ Len(stored[AbsFilename(PFile)]) > 0
  /\ fs[AbsFilename(PFile)].data = stored[AbsFilename(PFile)]
  /\ last.h.status = 500

\* C29: a GET or HEAD whose query parses is answered without a look at the
\* token: on the same file system, the same method and path with no token,
\* with an arbitrary token and with a valid digest get the same status,
\* headers and body, and make the same file-system calls.
C29_ReadIgnoresToken ==
  (last.req.method \in {"GET", "HEAD"} /\ ~last.req.query.err)
    => /\ last.made = {}
       /\ last.kept
       /\ \A q \in ReadQueries(last.req.path) :
            \E r \in {[last.req EXCEPT !.query = q]} :
              Run(fs, r, Entry(r), <<>>, NoFault).h = last.h

\* A GET with no token at all is answered 200 with the bytes of a stored file.
C29_Witness ==
  /\ last.req.method = "GET"
  /\ last.req.query = NoKeys
  /\ last.h.absFilename \in DOMAIN stored
  /\ last.h.status = 200
  /\ last.h.out = stored[last.h.absFilename]
  /\ Len(last.h.out) > 0

====
